---- MODULE Spec2Model ----
(***************************************************************************)
(* Model of pyspectools/astro/radiative.py: the .str parser, the Einstein  *)
(* A pipeline (calc_einstein) and the standalone radiative helpers         *)
(* (einsteinA, I2S, boltzmann_factor, approx_Q_top); of the YAML helpers,  *)
(* run_spcat and run_calbak of pyspectools/routines.py; and of             *)
(* SpectralCatalog.add_entry and MoleculeDatabase.add_molecule_yaml of     *)
(* pyspectools/database.py.                                                *)
(*                                                                         *)
(* Every run is one call: Init draws the function called and its           *)
(* arguments, the function's action computes the outcome (a returned       *)
(* value or a raised exception) and stores it in ret.                      *)
(***************************************************************************)
EXTENDS Integers, Sequences, FiniteSets, TLC

VARIABLES pc, op, args, ret, args2, ret2, fs, db, proc

\* The world outside the call: fs the files on disk (by name), db the
\* documents of the database (in insertion order), proc the external
\* program started by the call.
world == <<fs, db, proc>>

vars == <<pc, op, args, ret, args2, ret2, fs, db, proc>>

\* ------------------------------------------------------------------ bounds
\* Most rows of a .str file.
MaxRows == 2
\* Frequency cells are the integers -1..MaxFreq (MHz), blank or text.
MaxFreq == 2
\* Reduced-TDM cells are the integers -1..MaxRTDM, blank or text.
MaxRTDM == 1
\* Scalar arguments of the standalone helpers range over -MaxArg..MaxArg.
MaxArg == 2
\* Scale factors k of the scaling relations range over 2..MaxScale.
MaxScale == 4

\* ------------------------------------------------------- floating values
\* A float is a record [k, v, p]:
\*   k = "num"  the finite number v * prefactor^p (p is 0 or 1; the
\*              prefactor 1.163965505e-20 is kept as a symbolic unit, so v
\*              stays a small integer),
\*   k = "nan"  NaN (a blank cell of a numeric column),
\*   k = "str"  a Python string (a cell of an object column): not a float.
Num(v, p) == [k |-> "num", v |-> v, p |-> p]
NaN == [k |-> "nan", v |-> 0, p |-> 0]
Str(v) == [k |-> "str", v |-> v, p |-> 0]

IsNum(x) == x.k = "num"
IsNaN(x) == x.k = "nan"
IsStr(x) == x.k = "str"

\* x * y on floats; NaN propagates.
FMul(x, y) ==
    IF IsNaN(x) \/ IsNaN(y) THEN NaN ELSE Num(x.v * y.v, x.p + y.p)

\* x ** 2. on floats.
FPow2(x) == IF IsNaN(x) THEN NaN ELSE Num(x.v * x.v, 2 * x.p)

\* x ** 3. on floats (an odd power keeps the sign of x).
FPow3(x) == IF IsNaN(x) THEN NaN ELSE Num(x.v * x.v * x.v, 3 * x.p)

\* -------------------------------------------------------------- outcomes
Return(val) == [k |-> "return", val |-> val]
Raise(exc) == [k |-> "raise", exc |-> exc]
None == [k |-> "none"]

Returned(r) == r.k = "return"
Raised(r) == r.k = "raise"

\* ------------------------------------------------------------- .str file
\* A cell of a numeric column of the text file: a number, blank, or text
\* that is no number.
NumCell(v) == [k |-> "num", v |-> v]
BlankCell == [k |-> "blank", v |-> 0]
TextCell == [k |-> "text", v |-> 0]

FrequencyCells == {NumCell(v) : v \in -1..MaxFreq} \cup {BlankCell, TextCell}
RTDMCells == {NumCell(v) : v \in -1..MaxRTDM} \cup {BlankCell, TextCell}

\* The four pass-through columns of a line, as opaque tokens: the pipeline
\* never computes with them.
PassThrough ==
    { [Formatting |-> "303", UpperQN |-> "1 0 1", LowerQN |-> "0 0 0",
       DipoleCategory |-> "1"],
      [Formatting |-> "303", UpperQN |-> "2 1 2", LowerQN |-> "1 0 1",
       DipoleCategory |-> "2"] }

\* A line of the file: the six fixed-width fields [15, 15, 5, 12, 12, 11].
Lines ==
    { [Frequency |-> f, RTDM |-> r, Formatting |-> q.Formatting,
       UpperQN |-> q.UpperQN, LowerQN |-> q.LowerQN,
       DipoleCategory |-> q.DipoleCategory] :
      f \in FrequencyCells, r \in RTDMCells, q \in PassThrough }

Files == UNION { [1..n -> Lines] : n \in 0..MaxRows }

\* pandas' column type inference: a column with a cell that is no number is
\* an object column and keeps its cells as strings; otherwise it is a float
\* column. A blank cell is NaN in both.
IsObjectColumn(cells) == \E i \in DOMAIN cells : cells[i].k = "text"

ConvertCell(c, object) ==
    IF c.k = "blank" THEN NaN
    ELSE IF object THEN Str(c.v)
    ELSE Num(c.v, 0)

\* parse_str: the data frame of a .str file, one row per line in file
\* order, with pandas' default RangeIndex (0, 1, ...) as index. read_fwf
\* validates nothing: no cell makes it raise.
parse_str(filepath) ==
    LET fobj == IsObjectColumn([i \in DOMAIN filepath |-> filepath[i].Frequency])
        robj == IsObjectColumn([i \in DOMAIN filepath |-> filepath[i].RTDM])
    IN  [i \in DOMAIN filepath |->
            [index |-> i - 1,
             Frequency |-> ConvertCell(filepath[i].Frequency, fobj),
             RTDM |-> ConvertCell(filepath[i].RTDM, robj),
             Formatting |-> filepath[i].Formatting,
             UpperQN |-> filepath[i].UpperQN,
             LowerQN |-> filepath[i].LowerQN,
             DipoleCategory |-> filepath[i].DipoleCategory]]

\* ------------------------------------------------------------- einsteinA
\* The Einstein A prefactor 1.163965505e-20 s^-1 MHz^-3 D^-2, a positive
\* constant kept as the unit prefactor^1.
prefactor_negative == Num(-1, 1)
prefactor == Num(1, 1)

einsteinA_square(S, frequency) == FMul(FMul(prefactor, FPow2(frequency)), S)
\* einsteinA(S, frequency) = prefactor * frequency**3. * S
einsteinA(S, frequency) == FMul(FMul(prefactor, FPow3(frequency)), S)

\* --------------------------------------------------------- calc_einstein
\* A column with a string cell cannot be raised to a float power: Python
\* raises TypeError for str ** float.
HasStr(df, col) == \E i \in DOMAIN df : IsStr(df[i][col])

WithTDM_first(df) ==
    [i \in DOMAIN df |->
        [index |-> df[i].index, Frequency |-> df[i].Frequency,
         RTDM |-> df[i].RTDM, Formatting |-> df[i].Formatting,
         UpperQN |-> df[i].UpperQN, LowerQN |-> df[i].LowerQN,
         DipoleCategory |-> df[i].DipoleCategory,
         TDM |-> FPow2(df[1].RTDM)]]
\* str_df["TDM"] = str_df["RTDM"]**2.
WithTDM(df) ==
    [i \in DOMAIN df |->
        [index |-> df[i].index, Frequency |-> df[i].Frequency,
         RTDM |-> df[i].RTDM, Formatting |-> df[i].Formatting,
         UpperQN |-> df[i].UpperQN, LowerQN |-> df[i].LowerQN,
         DipoleCategory |-> df[i].DipoleCategory,
         TDM |-> FPow2(df[i].RTDM)]]

\* str_df["Einstein A"] = einsteinA(str_df["TDM"], str_df["Frequency"])
WithEinsteinA(df) ==
    [i \in DOMAIN df |->
        [index |-> df[i].index, Frequency |-> df[i].Frequency,
         RTDM |-> df[i].RTDM, Formatting |-> df[i].Formatting,
         UpperQN |-> df[i].UpperQN, LowerQN |-> df[i].LowerQN,
         DipoleCategory |-> df[i].DipoleCategory,
         TDM |-> df[i].TDM,
         EinsteinA |-> einsteinA(df[i].TDM, df[i].Frequency)]]

RowOrders(n) ==
    { s \in [1..n -> 1..n] : \A i, j \in 1..n : i # j => s[i] # s[j] }

\* The row orders DataFrame.sort_values(["Frequency"], ascending=True) may
\* produce. The sort kind is the default, "quicksort", which pandas
\* documents as not stable: rows of equal Frequency come out in an order
\* the build decides. NaN keys go last (na_position="last"), in their
\* original order.
SortOrders(df) ==
    { s \in RowOrders(Len(df)) :
        \A i, j \in 1..Len(df) : i < j =>
            LET a == df[s[i]].Frequency
                b == df[s[j]].Frequency
            IN  /\ ~(IsNaN(a) /\ IsNum(b))
                /\ (IsNum(a) /\ IsNum(b)) => a.v <= b.v
                /\ (IsNaN(a) /\ IsNaN(b)) => s[i] < s[j] }

sort_values(df, s) == [i \in DOMAIN df |-> df[s[i]]]

\* The outcomes of calc_einstein(str_filepath): TypeError when a numeric
\* column holds a string, else the table with its two derived columns in
\* one of the row orders the sort may produce.
calc_einstein(str_filepath) ==
    LET str_df == parse_str(str_filepath)
    IN  IF HasStr(str_df, "RTDM") THEN {Raise("TypeError")}
        ELSE IF HasStr(str_df, "Frequency") THEN {Raise("TypeError")}
        ELSE LET full == WithEinsteinA(WithTDM(str_df))
             IN  { Return(sort_values(full, s)) : s \in SortOrders(full) }

\* ------------------------------------------------------- scalar floats
\* The standalone helpers are called with scalars. Their floats are kept by
\* kind and sign: [k, s, neg] with k = "fin" (finite), "inf" or "nan", s the
\* sign of the value (-1, 0, 1; 0 is a zero) and neg the IEEE sign bit (a
\* zero has one too). Magnitudes that a helper needs are kept symbolically
\* beside it (see Weight and Q below).
Sgn(n) == IF n > 0 THEN 1 ELSE IF n < 0 THEN -1 ELSE 0

Fin(n) == [k |-> "fin", s |-> Sgn(n), neg |-> n < 0]
Zero(neg) == [k |-> "fin", s |-> 0, neg |-> neg]
Inf(neg) == [k |-> "inf", s |-> IF neg THEN -1 ELSE 1, neg |-> neg]
SNaN == [k |-> "nan", s |-> 0, neg |-> FALSE]

\* x * y (IEEE 754): inf * 0 is NaN.
SMul(x, y) ==
    IF x.k = "nan" \/ y.k = "nan" THEN SNaN
    ELSE IF (x.k = "inf" /\ y.s = 0) \/ (y.k = "inf" /\ x.s = 0) THEN SNaN
    ELSE IF x.k = "inf" \/ y.k = "inf" THEN Inf(x.neg # y.neg)
    ELSE [k |-> "fin", s |-> x.s * y.s, neg |-> x.neg # y.neg]

\* x / y where an operand is a NumPy float: a zero divisor gives inf or NaN
\* (and a RuntimeWarning), never an exception.
SDivNumpy(x, y) ==
    IF x.k = "nan" \/ y.k = "nan" THEN SNaN
    ELSE IF x.k = "inf" /\ y.k = "inf" THEN SNaN
    ELSE IF y.k = "inf" THEN Zero(x.neg # y.neg)
    ELSE IF x.k = "inf" THEN Inf(x.neg # y.neg)
    ELSE IF y.s = 0 THEN (IF x.s = 0 THEN SNaN ELSE Inf(x.neg # y.neg))
    ELSE [k |-> "fin", s |-> x.s * y.s, neg |-> x.neg # y.neg]

\* x / y: between Python floats a zero divisor raises ZeroDivisionError.
SDiv(x, y, np) ==
    IF ~np /\ y.k = "fin" /\ y.s = 0 THEN Raise("ZeroDivisionError")
    ELSE Return(SDivNumpy(x, y))

\* ---------------------------------------------------------------- units
\* An energy in wavenumbers is kept as cm + MHz2cm(MHz): the conversion
\* factor (1 cm^-1 is about 29979 MHz) is a positive constant far above the
\* frequencies of the model, so the sign of an energy is the sign of its cm
\* part, or of its MHz part when the cm part is zero.
Energy(cm, MHz) == [cm |-> cm, MHz |-> MHz]
ESign(E) == IF E.cm # 0 THEN Sgn(E.cm) ELSE Sgn(E.MHz)
ECmp(E1, E2) == ESign(Energy(E1.cm - E2.cm, E1.MHz - E2.MHz))

\* pyspectools.units.MHz2cm: a frequency in MHz as wavenumbers.
MHz2cm(frequency) == Energy(0, frequency)

\* pyspectools.units.kbcm: the Boltzmann constant in cm^-1 / K, positive.
kbcm == Fin(1)

\* calc_E_upper(frequency, E_lower) = MHz2cm(frequency) + E_lower
calc_E_upper(frequency, E_lower) ==
    LET transition_freq == MHz2cm(frequency)
    IN  Energy(transition_freq.cm + E_lower.cm, transition_freq.MHz + E_lower.MHz)

\* ------------------------------------------------------ boltzmann_factor
\* A Boltzmann weight: the float [k, s, neg] and, when it is the finite
\* value exp(-E / (kbcm * T)) with T # 0, the E and T it was computed from.
Weight(x, E, T) == [k |-> x.k, s |-> x.s, neg |-> x.neg, E |-> E, T |-> T]

\* np.exp(x): exp(-inf) = 0, exp(inf) = inf, exp(NaN) = NaN, else positive.
np_exp(x) ==
    IF x.k = "nan" THEN SNaN
    ELSE IF x.k = "inf" THEN (IF x.neg THEN Zero(FALSE) ELSE Inf(FALSE))
    ELSE Fin(1)

\* boltzmann_factor(E, T) = np.exp(-E / (kbcm * T)). np: E or T is a NumPy
\* float; otherwise both are Python floats and -E / 0.0 raises.
boltzmann_factor(E, T, np) ==
    LET minusE == [k |-> "fin", s |-> -ESign(E), neg |-> ESign(E) >= 0]
        q == SDiv(minusE, SMul(kbcm, Fin(T)), np)
    IN  IF Raised(q) THEN q
        ELSE Return(Weight(np_exp(q.val), E, T))

\* ------------------------------------------------------------------- I2S
\* lower_factor - upper_factor, two weights at the same temperature: two
\* finite weights compare as their exponents -E / (kbcm * T) do.
WeightDiff(l, u) ==
    IF l.k = "nan" \/ u.k = "nan" THEN SNaN
    ELSE IF l.k = "inf" /\ u.k = "inf" THEN SNaN
    ELSE IF l.k = "inf" THEN Inf(FALSE)
    ELSE IF u.k = "inf" THEN Inf(TRUE)
    ELSE IF l.s = 0 \/ u.s = 0 THEN Fin(l.s - u.s)
    ELSE Fin(Sgn(l.T) * ECmp(u.E, l.E))

\* I2S(I, Q, frequency, E_lower, T): the outcome, with the returned
\* linestrength kept by kind and sign. The weights come from np.exp and are
\* NumPy floats, so is B, and A / B follows NumPy's division.
I2S(I, Q, frequency, E_lower, T, np) ==
    LET E_upper == calc_E_upper(frequency, E_lower)
        A == SMul(Fin(1), Fin(Q))
        lower_factor == boltzmann_factor(E_lower, T, np)
        upper_factor == boltzmann_factor(E_upper, T, np)
    IN  IF Raised(lower_factor) THEN lower_factor
        ELSE IF Raised(upper_factor) THEN upper_factor
        ELSE LET B == SMul(SMul(Fin(1), Fin(frequency)),
                           WeightDiff(lower_factor.val, upper_factor.val))
             IN  Return(SDivNumpy(A, B))

\* ---------------------------------------------------------- approx_Q_top
\* x ** 0.5: the root of a negative Python float is a complex number, that
\* of a negative NumPy float is NaN; pow(+-inf, 0.5) is +inf and
\* pow(+-0.0, 0.5) is +0.0.
SRoot(x, np) ==
    IF x.k = "nan" THEN SNaN
    ELSE IF x.k = "inf" THEN Inf(FALSE)
    ELSE IF x.s = 0 THEN Zero(FALSE)
    ELSE IF x.s > 0 THEN Fin(1)
    ELSE IF np THEN SNaN
    ELSE [k |-> "complex", s |-> 0, neg |-> FALSE]

\* The optional argument C: None, or a rotational constant.
NoC == [given |-> FALSE, v |-> 0]
SomeC(v) == [given |-> TRUE, v |-> v]

\* A partition function value: the float [k, s, neg] (k may also be
\* "complex") and its magnitude 5.34e6 * (1 / cd) * sqrt(rn / rd).
Q(x, cd, rn, rd) ==
    [k |-> x.k, s |-> x.s, neg |-> x.neg, cd |-> cd, rn |-> rn, rd |-> rd]

approx_Q_top_root_sigma(A, B, T, sigma, C, np) ==
    LET C1 == IF C.given THEN C.v ELSE B
        ratio == SDiv(Fin(T * T * T),
                      SMul(SMul(SMul(Fin(A), Fin(B)), Fin(C1)), Fin(sigma)), np)
    IN  IF Raised(ratio) THEN ratio
        ELSE Return(Q(SRoot(ratio.val, np), 1, T * T * T, A * B * C1 * sigma))
\* approx_Q_top(A, B, T, sigma=1, C=None):
\*   Q = (5.34e6 / sigma) * (T**3. / (A * B * C))**0.5, C = B when None.
approx_Q_top(A, B, T, sigma, C, np) ==
    LET C1 == IF C.given THEN C.v ELSE B
        coef == SDiv(Fin(1), Fin(sigma), np)
        ratio == SDiv(Fin(T * T * T), SMul(SMul(Fin(A), Fin(B)), Fin(C1)), np)
    IN  IF Raised(coef) THEN coef
        ELSE IF Raised(ratio) THEN ratio
        ELSE LET root == SRoot(ratio.val, np)
                 x == IF root.k = "complex" THEN root ELSE SMul(coef.val, root)
             IN  Return(Q(x, sigma, T * T * T, A * B * C1))

\* einsteinA on two scalars.
Scalar(n) == Num(n, 0)

\* ------------------------------------------------------------------ calls
\* No file on disk: the radiative calls get their file as an argument.
NoFiles == [name \in {} |-> None]

\* No external program was started.
NoProcess == [state |-> "none", argv |-> <<>>]

Scalars == -MaxArg..MaxArg

CalcEinsteinArgs == { [str_filepath |-> f] : f \in Files }

EinsteinAArgs == { [S |-> S, frequency |-> f] : S \in Scalars, f \in Scalars }

BoltzmannArgs ==
    { [E |-> Energy(cm, MHz), T |-> T, np |-> np] :
      cm \in Scalars, MHz \in Scalars, T \in Scalars, np \in BOOLEAN }

I2SArgs ==
    { [I |-> I, Q |-> q, frequency |-> f, E_lower |-> Energy(E, 0), T |-> T,
       np |-> np] :
      I \in {-1, 0}, q \in Scalars, f \in Scalars, E \in Scalars,
      T \in Scalars, np \in BOOLEAN }

ApproxQTopArgs ==
    { [A |-> A, B |-> B, T |-> T, sigma |-> sigma, C |-> C, np |-> np] :
      A \in Scalars, B \in Scalars, T \in Scalars, sigma \in Scalars,
      C \in {NoC} \cup {SomeC(v) : v \in Scalars}, np \in BOOLEAN }

Init ==
    /\ pc = "call"
    /\ \/ op = "calc_einstein" /\ args \in CalcEinsteinArgs
       \/ op = "einsteinA" /\ args \in EinsteinAArgs
       \/ op = "boltzmann_factor" /\ args \in BoltzmannArgs
       \/ op = "I2S" /\ args \in I2SArgs
       \/ op = "approx_Q_top" /\ args \in ApproxQTopArgs
    /\ ret = None
    /\ args2 = None
    /\ ret2 = None
    /\ fs = NoFiles /\ db = <<>> /\ proc = NoProcess

CalcEinstein ==
    /\ pc = "call"
    /\ op = "calc_einstein"
    /\ \E r \in calc_einstein(args.str_filepath) : ret' = r
    /\ pc' = "done"
    /\ UNCHANGED <<op, args, args2, ret2, world>>

EinsteinA ==
    /\ pc = "call"
    /\ op = "einsteinA"
    /\ ret' = Return(einsteinA(Scalar(args.S), Scalar(args.frequency)))
    /\ pc' = "done"
    /\ UNCHANGED <<op, args, args2, ret2, world>>

BoltzmannFactor ==
    /\ pc = "call"
    /\ op = "boltzmann_factor"
    /\ ret' = boltzmann_factor(args.E, args.T, args.np)
    /\ pc' = "done"
    /\ UNCHANGED <<op, args, args2, ret2, world>>

CallI2S ==
    /\ pc = "call"
    /\ op = "I2S"
    /\ ret' = I2S(args.I, args.Q, args.frequency, args.E_lower, args.T, args.np)
    /\ pc' = "done"
    /\ UNCHANGED <<op, args, args2, ret2, world>>

ApproxQTop ==
    /\ pc = "call"
    /\ op = "approx_Q_top"
    /\ ret' = approx_Q_top(args.A, args.B, args.T, args.sigma, args.C, args.np)
    /\ pc' = "done"
    /\ UNCHANGED <<op, args, args2, ret2, world>>

Next ==
    \/ CalcEinstein
    \/ EinsteinA
    \/ BoltzmannFactor
    \/ CallI2S
    \/ ApproxQTop

Spec == Init /\ [][Next]_vars

\* ------------------------------------------------------- two files, two calls
\* calc_einstein called on two files, one after the other.
MaxPairRows == 2

PairLines ==
    { [Frequency |-> f, RTDM |-> r, Formatting |-> "303", UpperQN |-> "1 0 1",
       LowerQN |-> "0 0 0", DipoleCategory |-> "1"] :
      f \in {NumCell(1), NumCell(2), BlankCell},
      r \in {NumCell(2), BlankCell, TextCell} }

PairFiles == UNION { [1..n -> PairLines] : n \in 0..MaxPairRows }

InitPair ==
    /\ pc = "call"
    /\ op = "calc_einstein"
    /\ args \in { [str_filepath |-> f] : f \in PairFiles }
    /\ args2 \in { [str_filepath |-> f] : f \in PairFiles }
    /\ ret = None
    /\ ret2 = None
    /\ fs = NoFiles /\ db = <<>> /\ proc = NoProcess

CalcEinstein2 ==
    /\ pc = "done"
    /\ op = "calc_einstein"
    /\ args2 # None
    /\ \E r \in calc_einstein(args2.str_filepath) : ret2' = r
    /\ pc' = "done2"
    /\ UNCHANGED <<op, args, ret, args2, world>>

NextPair ==
    \/ CalcEinstein
    \/ CalcEinstein2

SpecPair == InitPair /\ [][NextPair]_vars

\* ============================================================ YAML helpers
\* read_yaml and dump_yaml of pyspectools.routines, the YAML twins of
\* read_json and dump_json: dump_yaml(path, d) opens path for writing and
\* writes d as YAML text, read_yaml(path) opens path and parses its text.
\*
\* A Python value of a mapping: None, a string, or a nested mapping of
\* strings and None.
PyNone == [t |-> "none", s |-> "", m |-> <<>>]
PyStr(s) == [t |-> "str", s |-> s, m |-> <<>>]
PyMap(m) == [t |-> "map", s |-> "", m |-> m]

\* Keys in the order yaml.dump writes them (sort_keys=True).
TopOrder == <<"ch3cn", "hc3n">>
InnerOrder == <<"filepath", "formula">>

SeqRange(q) == { q[i] : i \in DOMAIN q }

\* The string "null" reads like YAML's null and must be quoted on output.
YamlScalars == {PyNone, PyStr("ch3cn"), PyStr("null")}

MapsOver(keys, values) == UNION { [K -> values] : K \in SUBSET keys }

YamlDicts ==
    MapsOver(SeqRange(TopOrder),
             YamlScalars \cup { PyMap(m) : m \in MapsOver(SeqRange(InnerOrder), YamlScalars) })

\* A line of YAML text: its indentation level, its key and the text after
\* the colon ("" when a nested block follows). The document of an empty
\* mapping is the one line "{}".
YamlLine(ind, key, val) == [ind |-> ind, key |-> key, val |-> val]
EmptyDocument == <<YamlLine(0, "", "{}")>>

DumpScalar(v) ==
    IF v.t = "none" THEN "null"
    ELSE IF v.s = "null" THEN "'null'"
    ELSE v.s

LoadScalar(text) ==
    IF text = "null" THEN PyNone
    ELSE IF text = "'null'" THEN PyStr("null")
    ELSE PyStr(text)

RECURSIVE DumpInner(_, _)
DumpInner(m, order) ==
    IF order = <<>> THEN <<>>
    ELSE (IF Head(order) \in DOMAIN m
          THEN <<YamlLine(1, Head(order), DumpScalar(m[Head(order)]))>>
          ELSE <<>>) \o DumpInner(m, Tail(order))

DumpEntry(key, v) ==
    IF v.t = "map"
    THEN IF DOMAIN v.m = {}
         THEN <<YamlLine(0, key, "{}")>>
         ELSE <<YamlLine(0, key, "")>> \o DumpInner(v.m, InnerOrder)
    ELSE <<YamlLine(0, key, DumpScalar(v))>>

RECURSIVE DumpTop(_, _)
DumpTop(d, order) ==
    IF order = <<>> THEN <<>>
    ELSE (IF Head(order) \in DOMAIN d
          THEN DumpEntry(Head(order), d[Head(order)])
          ELSE <<>>) \o DumpTop(d, Tail(order))

\* yaml.dump(yaml_dict): the text of the mapping.
yaml_dump(yaml_dict) ==
    IF DOMAIN yaml_dict = {} THEN EmptyDocument ELSE DumpTop(yaml_dict, TopOrder)

\* The lines of the nested block that follows line i.
BlockAfter(text, i) ==
    { j \in DOMAIN text :
        /\ j > i
        /\ \A h \in (i + 1)..j : text[h].ind = 1 }

LoadValue(text, i) ==
    IF text[i].val = ""
    THEN PyMap([k \in { text[j].key : j \in BlockAfter(text, i) } |->
                  LoadScalar(text[CHOOSE j \in BlockAfter(text, i) :
                                    text[j].key = k].val)])
    ELSE IF text[i].val = "{}" THEN PyMap(<<>>)
    ELSE LoadScalar(text[i].val)

yaml_load_skip_null(text) ==
    IF text = EmptyDocument THEN <<>>
    ELSE LET top == { i \in DOMAIN text : text[i].ind = 0 /\ text[i].val # "null" }
         IN  [k \in { text[i].key : i \in top } |->
                LoadValue(text, CHOOSE i \in top : text[i].key = k)]
\* yaml.load(text): the mapping of the text.
yaml_load(text) ==
    IF text = EmptyDocument THEN <<>>
    ELSE LET top == { i \in DOMAIN text : text[i].ind = 0 }
         IN  [k \in { text[i].key : i \in top } |->
                LoadValue(text, CHOOSE i \in top : text[i].key = k)]

\* open(path, "w+") and write: the file is created or replaced.
WriteFile(files, path, content) ==
    [n \in DOMAIN files \cup {path} |-> IF n = path THEN content ELSE files[n]]

YamlPath == "tmp_file.yml"

\* dump_yaml(yaml_filepath, yaml_dict)
DumpYaml ==
    /\ pc = "call"
    /\ op = "dump_yaml"
    /\ fs' = WriteFile(fs, args.yaml_filepath, yaml_dump(args.yaml_dict))
    /\ ret' = Return(PyNone)
    /\ pc' = "dumped"
    /\ op' = "read_yaml"
    /\ UNCHANGED <<args, args2, ret2, db, proc>>

\* read_yaml(yaml_filepath): open() raises FileNotFoundError for a missing
\* file.
ReadYaml ==
    /\ pc \in {"call", "dumped"}
    /\ op = "read_yaml"
    /\ ret' = IF args.yaml_filepath \in DOMAIN fs
              THEN Return(yaml_load(fs[args.yaml_filepath]))
              ELSE Raise("FileNotFoundError")
    /\ pc' = IF pc = "dumped" THEN "reloaded" ELSE "done"
    /\ UNCHANGED <<op, args, args2, ret2, world>>

\* A round trip (dump_yaml, then read_yaml of the same path), or a lone
\* read_yaml; the path may hold an older document, or be missing.
InitYaml ==
    /\ pc = "call"
    /\ op \in {"dump_yaml", "read_yaml"}
    /\ args \in { [yaml_filepath |-> YamlPath, yaml_dict |-> d] : d \in YamlDicts }
    /\ fs \in {NoFiles} \cup
              { WriteFile(NoFiles, YamlPath, yaml_dump(d)) :
                d \in MapsOver(SeqRange(TopOrder), {PyNone}) }
    /\ ret = None
    /\ args2 = None
    /\ ret2 = None
    /\ db = <<>>
    /\ proc = NoProcess

NextYaml ==
    \/ DumpYaml
    \/ ReadYaml

SpecYaml == InitYaml /\ [][NextYaml]_vars

\* ================================================= SpectralCatalog.add_entry
\* Most documents a database holds.
MaxDocs == 3
\* Frequencies of the catalog entries are 1..MaxEntryFreq.
MaxEntryFreq == 2

\* The document of an assignment.
Entries ==
    { [name |-> n, frequency |-> f] :
      n \in {"ch3cn", "hc3n"}, f \in 1..MaxEntryFreq }

\* An assignment is a dict, or a Transition object whose __dict__ is the
\* document.
Assignments ==
    { [type |-> t, dict |-> e] : t \in {"dict", "Transition"}, e \in Entries }

\* any([new_entry == entry for entry in self.all()])
AnyEqual(all, new_entry) == \E n \in DOMAIN all : new_entry = all[n]

\* TinyDB.insert: the document goes after the stored ones.
insert(all, document) == Append(all, document)

add_entry_unchecked(all, assignment, dup_check) ==
    LET new_entry == assignment.dict
    IN  [db |-> insert(all, new_entry), warned |-> FALSE]
\* add_entry(assignment, dup_check=True): the documents after the call, and
\* whether "Entry already exists in database." was warned.
add_entry(all, assignment, dup_check) ==
    LET \* assignment.__dict__ of an object, the assignment itself if a dict
        new_entry == assignment.dict
        found == AnyEqual(all, new_entry)
        add == IF dup_check THEN ~found ELSE TRUE
    IN  [db |-> IF add THEN insert(all, new_entry) ELSE all,
         warned |-> dup_check /\ found]

AddEntry ==
    /\ Len(db) < MaxDocs
    /\ \E assignment \in Assignments, dup_check \in BOOLEAN :
         LET out == add_entry(db, assignment, dup_check)
         IN  /\ args' = [assignment |-> assignment, dup_check |-> dup_check]
             /\ db' = out.db
             /\ ret' = Return([warned |-> out.warned])
    /\ op' = "add_entry"
    /\ pc' = "done"
    /\ UNCHANGED <<args2, ret2, fs, proc>>

\* A new, empty catalog.
InitCatalog ==
    /\ pc = "call"
    /\ op = "add_entry"
    /\ args = None
    /\ ret = None
    /\ args2 = None
    /\ ret2 = None
    /\ fs = NoFiles
    /\ db = <<>>
    /\ proc = NoProcess

NextCatalog ==
    \/ AddEntry

SpecCatalog == InitCatalog /\ [][NextCatalog]_vars

\* ================================================== run_spcat, run_calbak
\* Most lines calbak writes to the .lin file.
MaxLines == 2

\* The molecule's files, and the two programs as found on PATH.
Filename == "mol"
VarFile == "mol.var"
ParFile == "mol.par"
IntFile == "mol.int"
CatFile == "mol.cat"
LinFile == "mol.lin"
SpcatProgram == "spcat"
CalbakProgram == "calbak"

\* os.path.isfile(path)
isfile(files, path) == path \in DOMAIN files

\* A copy that writes nothing.
copy2_nothing(files, src, dst) == files

\* shutil.copy2(src, dst)
copy2(files, src, dst) == WriteFile(files, dst, files[src])

\* subprocess.Popen(argv): the started process, or FileNotFoundError when
\* the program is not installed.
Popen(files, argv) ==
    IF isfile(files, argv[1])
    THEN Return([state |-> "running", argv |-> argv])
    ELSE Raise("FileNotFoundError")

\* A text file of n lines, as readlines() returns it.
TextLines(n) == [i \in 1..n |-> "line"]

\* list == int in Python: a list never equals a number.
PyListEqualsInt(list, n) == FALSE

\* run_spcat, lines 16-22: the parameter file is the .var file; without it
\* the .par file is copied to it, and without either the call raises.
SpcatParameterFile ==
    /\ pc = "call"
    /\ op = "run_spcat"
    /\ IF isfile(fs, VarFile)
       THEN /\ pc' = "popen"
            /\ UNCHANGED <<fs, ret>>
       ELSE IF ~isfile(fs, ParFile)
       THEN /\ ret' = Raise("FileNotFoundError")
            /\ pc' = "done"
            /\ UNCHANGED fs
       ELSE /\ fs' = copy2(fs, ParFile, VarFile)
            /\ pc' = "popen"
            /\ UNCHANGED ret
    /\ UNCHANGED <<op, args, args2, ret2, db, proc>>

\* run_spcat, lines 23-25: spcat is started on the .int and parameter file.
SpcatPopen ==
    /\ pc = "popen"
    /\ op = "run_spcat"
    /\ LET process == Popen(fs, <<SpcatProgram, IntFile, VarFile>>)
       IN  IF Returned(process)
           THEN /\ proc' = process.val
                /\ pc' = "wait"
                /\ UNCHANGED ret
           ELSE /\ ret' = process
                /\ pc' = "done"
                /\ UNCHANGED proc
    /\ UNCHANGED <<op, args, args2, ret2, fs, db>>

\* The spcat process ends, with or without a catalog written.
SpcatExits ==
    /\ op = "run_spcat"
    /\ proc.state = "running"
    /\ proc' = [proc EXCEPT !.state = "exited"]
    /\ \/ fs' = WriteFile(fs, CatFile, TextLines(1))
       \/ UNCHANGED fs
    /\ UNCHANGED <<pc, op, args, ret, args2, ret2, db>>

\* run_spcat, line 26: process.wait() returns once the process has ended.
SpcatWait ==
    /\ pc = "wait"
    /\ op = "run_spcat"
    /\ proc.state = "exited"
    /\ ret' = Return(PyNone)
    /\ pc' = "done"
    /\ UNCHANGED <<op, args, args2, ret2, world>>

\* run_calbak, lines 31-32: without the .cat file the call raises.
CalbakCatFile ==
    /\ pc = "call"
    /\ op = "run_calbak"
    /\ IF ~isfile(fs, CatFile)
       THEN ret' = Raise("FileNotFoundError") /\ pc' = "done"
       ELSE pc' = "popen" /\ UNCHANGED ret
    /\ UNCHANGED <<op, args, args2, ret2, world>>

\* run_calbak, lines 33-40: calbak is started on the .cat and .lin file.
CalbakPopen ==
    /\ pc = "popen"
    /\ op = "run_calbak"
    /\ LET process == Popen(fs, <<CalbakProgram, CatFile, LinFile>>)
       IN  IF Returned(process)
           THEN /\ proc' = process.val
                /\ pc' = "wait"
                /\ UNCHANGED ret
           ELSE /\ ret' = process
                /\ pc' = "done"
                /\ UNCHANGED proc
    /\ UNCHANGED <<op, args, args2, ret2, fs, db>>

\* The calbak process ends: it has written a .lin file of some lines
\* (maybe none), or has failed and written nothing.
CalbakExits ==
    /\ op = "run_calbak"
    /\ proc.state = "running"
    /\ proc' = [proc EXCEPT !.state = "exited"]
    /\ \/ \E n \in 0..MaxLines : fs' = WriteFile(fs, LinFile, TextLines(n))
       \/ UNCHANGED fs
    /\ UNCHANGED <<pc, op, args, ret, args2, ret2, db>>

\* run_calbak, lines 41-45: after process.wait() the .lin file is read
\* (open raises FileNotFoundError when there is none) and lin_length, the
\* list of its lines, is compared with 0.
CalbakWaitAndRead ==
    /\ pc = "wait"
    /\ op = "run_calbak"
    /\ proc.state = "exited"
    /\ ret' = IF ~isfile(fs, LinFile) THEN Raise("FileNotFoundError")
              ELSE LET lin_length == fs[LinFile]
                   IN  IF PyListEqualsInt(lin_length, 0)
                       THEN Raise("RuntimeError")
                       ELSE Return(PyNone)
    /\ pc' = "done"
    /\ UNCHANGED <<op, args, args2, ret2, world>>

ParContents == {<<"par A">>, <<"par B">>}

\* The files a call may find: any of the .var, .par, .cat and .lin files
\* and of the two programs may be there or not.
RunFiles ==
    { f \in UNION { [names -> ParContents \cup {TextLines(n) : n \in 0..MaxLines}] :
                    names \in SUBSET {VarFile, ParFile, CatFile, LinFile,
                                      SpcatProgram, CalbakProgram} } :
        /\ \A name \in DOMAIN f \cap {VarFile, ParFile} : f[name] \in ParContents
        /\ \A name \in DOMAIN f \cap {LinFile} : f[name] \in {TextLines(n) : n \in 0..MaxLines}
        /\ \A name \in DOMAIN f \cap {CatFile, SpcatProgram, CalbakProgram} :
             f[name] = TextLines(1) }

InitRun ==
    /\ pc = "call"
    /\ op \in {"run_spcat", "run_calbak"}
    /\ args = [filename |-> Filename]
    /\ fs \in RunFiles
    /\ ret = None
    /\ args2 = None
    /\ ret2 = None
    /\ db = <<>>
    /\ proc = NoProcess

NextRun ==
    \/ SpcatParameterFile
    \/ SpcatPopen
    \/ SpcatExits
    \/ SpcatWait
    \/ CalbakCatFile
    \/ CalbakPopen
    \/ CalbakExits
    \/ CalbakWaitAndRead

SpecRun == InitRun /\ [][NextRun]_vars

\* ====================================================== MoleculeDatabase
\* Most molecules stored.
MaxMolecules == 2

YmlPaths == {"a.yml", "b.yml"}
Md5s == {"md5 A", "md5 B", "md5 C"}

\* What a molecule YAML file loads to: the metadata, which carry the md5
\* hash, and the keywords of the .var file.
MoleculeFiles ==
    { [metadata |-> [md5 |-> h, name |-> n], var_kwargs |-> "var_kwargs"] :
      h \in Md5s, n \in {"ch3cn", "hc3n"} }

\* load_molecule_yaml(yml_path): (mol, metadata, var_kwargs)
load_molecule_yaml(files, yml_path) ==
    IF yml_path \notin DOMAIN files
    THEN Raise("FileNotFoundError")
    ELSE Return(<<"mol", files[yml_path].metadata, files[yml_path].var_kwargs>>)

\* TinyDB.get(query.field == value): the first document that has the field
\* with that value, None without one.
get(all, field, value) ==
    LET matches == { n \in DOMAIN all : field \in DOMAIN all[n] /\ all[n][field] = value }
    IN  IF matches = {} THEN PyNone
        ELSE all[CHOOSE n \in matches : \A k \in matches : n <= k]

\* A query that finds nothing.
get_query_none(all, field, value) == PyNone

\* get_query(field, value)
get_query(all, field, value) == get(all, field, value)

\* bool(x) of None or of a stored document, which is never empty.
Truthy(x) == x # PyNone

\* add_molecule_yaml(yml_path): the outcome and the documents after it.
add_molecule_yaml(files, all, yml_path) ==
    LET loaded == load_molecule_yaml(files, yml_path)
    IN  IF Raised(loaded) THEN [ret |-> loaded, db |-> all]
        ELSE LET metadata == [name \in DOMAIN loaded.val[2] \cup {"var_kwargs"} |->
                                IF name = "var_kwargs" THEN loaded.val[3]
                                ELSE loaded.val[2][name]]
             IN  IF Truthy(get_query(all, "md5", metadata.md5))
                 THEN [ret |-> Raise("KeyError"), db |-> all]
                 ELSE [ret |-> Return(PyNone), db |-> insert(all, metadata)]

AddMoleculeYaml ==
    /\ \E yml_path \in YmlPaths :
         LET out == add_molecule_yaml(fs, db, yml_path)
         IN  /\ Len(out.db) <= MaxMolecules
             /\ args' = [yml_path |-> yml_path]
             /\ ret' = out.ret
             /\ db' = out.db
    /\ op' = "add_molecule_yaml"
    /\ pc' = "done"
    /\ UNCHANGED <<args2, ret2, fs, proc>>

\* Between two calls a molecule file is written, rewritten or removed.
EditMoleculeFile ==
    /\ \E yml_path \in YmlPaths :
         \/ \E file \in MoleculeFiles : fs' = WriteFile(fs, yml_path, file)
         \/ fs' = [name \in DOMAIN fs \ {yml_path} |-> fs[name]]
    /\ op' = "edit"
    /\ pc' = "call"
    /\ UNCHANGED <<args, ret, args2, ret2, db, proc>>

\* A new, empty database and no molecule file.
InitMolecule ==
    /\ pc = "call"
    /\ op = "edit"
    /\ args = None
    /\ ret = None
    /\ args2 = None
    /\ ret2 = None
    /\ fs = NoFiles
    /\ db = <<>>
    /\ proc = NoProcess

NextMolecule ==
    \/ AddMoleculeYaml
    \/ EditMoleculeFile

SpecMolecule == InitMolecule /\ [][NextMolecule]_vars

\* ================================================================ claims
CalcDone == op = "calc_einstein" /\ pc # "call"
CalcReturned == CalcDone /\ Returned(ret)

\* The float a cell of the file stands for: a number or, when blank, NaN.
CellValue(c) == IF c.k = "num" THEN Num(c.v, 0) ELSE NaN

\* Row r of a returned table carries the six fields of line l of the file.
SameSixFields(r, l) ==
    /\ r.Frequency = CellValue(l.Frequency)
    /\ r.RTDM = CellValue(l.RTDM)
    /\ r.Formatting = l.Formatting
    /\ r.UpperQN = l.UpperQN
    /\ r.LowerQN = l.LowerQN
    /\ r.DipoleCategory = l.DipoleCategory

\* TDM and Einstein A of a row as the pipeline defines them: RTDM squared,
\* and prefactor * Frequency^3 * TDM; a missing operand (NaN) gives NaN.
RowIsDerived(r) ==
    /\ r.TDM = IF IsNum(r.RTDM) THEN Num(r.RTDM.v * r.RTDM.v, 0) ELSE NaN
    /\ r.EinsteinA =
         IF IsNum(r.RTDM) /\ IsNum(r.Frequency)
         THEN Num(r.Frequency.v * r.Frequency.v * r.Frequency.v
                    * r.RTDM.v * r.RTDM.v, 1)
         ELSE NaN

\* C1: the table calc_einstein returns holds exactly the parsed records (as
\* many rows as parse_str gives, every parsed record at exactly one output
\* position with its six fields), and every row carries TDM = RTDM^2 and
\* Einstein A = prefactor * Frequency^3 * TDM and nothing else (no I2S
\* conversion, no Boltzmann factor).
C1_TableIsParsedRecordsPlusTDMAndEinsteinA ==
    CalcReturned =>
        LET parsed == parse_str(args.str_filepath)
            t == ret.val
        IN  /\ Len(t) = Len(parsed)
            /\ \A i \in DOMAIN parsed :
                 /\ Cardinality({j \in DOMAIN t : t[j].index = parsed[i].index}) = 1
                 /\ \A j \in DOMAIN t : t[j].index = parsed[i].index =>
                      /\ t[j].Frequency = parsed[i].Frequency
                      /\ t[j].RTDM = parsed[i].RTDM
                      /\ t[j].Formatting = parsed[i].Formatting
                      /\ t[j].UpperQN = parsed[i].UpperQN
                      /\ t[j].LowerQN = parsed[i].LowerQN
                      /\ t[j].DipoleCategory = parsed[i].DipoleCategory
            /\ \A j \in DOMAIN t : RowIsDerived(t[j])

\* A two-row table came back whose rows have numeric fields and differ, one
\* of them with Frequency 2 and a non-zero reduced TDM.
C1_Witness ==
    /\ CalcReturned
    /\ Len(ret.val) = 2
    /\ ret.val[1].Frequency # ret.val[2].Frequency
    /\ \E j \in DOMAIN ret.val :
         /\ ret.val[j].Frequency = Num(2, 0)
         /\ IsNum(ret.val[j].RTDM) /\ ret.val[j].RTDM.v # 0
         /\ ret.val[j].EinsteinA = Num(8 * ret.val[j].RTDM.v * ret.val[j].RTDM.v, 1)

\* C2: the returned table is non-decreasing in Frequency: for output
\* positions i < j, Frequency[i] <= Frequency[j] (a comparison that is false
\* when either side is NaN).
C2_NonDecreasingFrequency ==
    CalcReturned =>
        \A i, j \in DOMAIN ret.val : i < j =>
            /\ IsNum(ret.val[i].Frequency)
            /\ IsNum(ret.val[j].Frequency)
            /\ ret.val[i].Frequency.v <= ret.val[j].Frequency.v

\* C3: the final sort is stable: of two rows with equal Frequency, the one
\* that comes first in the file comes first in the returned table.
C3_StableSort ==
    CalcReturned =>
        \A i, j \in DOMAIN ret.val :
            (/\ i < j
             /\ IsNum(ret.val[i].Frequency)
             /\ ret.val[i].Frequency = ret.val[j].Frequency)
            => ret.val[i].index < ret.val[j].index

\* A line whose Frequency or reduced TDM is blank or no number.
Malformed(l) == l.Frequency.k # "num" \/ l.RTDM.k # "num"

\* C4: all or nothing: when a line of the file has a blank or non-numeric
\* Frequency or reduced TDM, calc_einstein raises and returns no table; no
\* returned table has a row with a missing TDM or Einstein A.
C4_MalformedRowAborts ==
    CalcDone =>
        /\ (\E i \in DOMAIN args.str_filepath : Malformed(args.str_filepath[i]))
             => Raised(ret)
        /\ Returned(ret) =>
             \A j \in DOMAIN ret.val :
                 IsNum(ret.val[j].TDM) /\ IsNum(ret.val[j].EinsteinA)

EinsteinADone == op = "einsteinA" /\ pc = "done"

\* C5 as stated: for any frequency, negative ones included, and S >= 0,
\* einsteinA(S, frequency) >= 0.
C5_NonNegativeForAnyFrequency ==
    (EinsteinADone /\ args.S >= 0) => (IsNum(ret.val) /\ ret.val.v >= 0)

\* C5, amended: for any frequency >= 0 and S >= 0, einsteinA(S, frequency)
\* >= 0; for a negative frequency and S > 0 the value is negative.
C5_NonNegativeForNonNegativeFrequency ==
    /\ (EinsteinADone /\ args.S >= 0 /\ args.frequency >= 0)
         => (IsNum(ret.val) /\ ret.val.p = 1 /\ ret.val.v >= 0)
    /\ (EinsteinADone /\ args.S > 0 /\ args.frequency < 0)
         => (IsNum(ret.val) /\ ret.val.p = 1 /\ ret.val.v < 0)

\* einsteinA returned a positive value for a positive S and frequency.
C5_Witness ==
    /\ EinsteinADone
    /\ args.S = 1 /\ args.frequency = 2
    /\ ret.val = Num(8, 1)

I2SDone == op = "I2S" /\ pc = "done"

\* C6: I2S raises whenever its denominator B is zero (frequency 0, or equal
\* lower and upper weights), and never returns infinity or NaN then. At a
\* temperature T # 0 the two weights are finite and B is zero exactly when
\* frequency is 0.
C6_ZeroDenominatorRaises ==
    (I2SDone /\ args.T # 0 /\ args.frequency = 0) => Raised(ret)

BoltzmannDone == op = "boltzmann_factor" /\ pc = "done"

\* C7: boltzmann_factor(E, T) with T = 0 fails for every energy E instead of
\* returning a value.
C7_ZeroTemperatureRaises ==
    (BoltzmannDone /\ args.T = 0) => Raised(ret)

ApproxQTopDone == op = "approx_Q_top" /\ pc = "done"

\* The product A * B * C of a call, C taken as B when not supplied.
ArgsABC == args.A * args.B * (IF args.C.given THEN args.C.v ELSE args.B)

\* C8: approx_Q_top fails whenever A * B * C <= 0 or sigma = 0, and never
\* returns a partition function value for those inputs.
C8_NonPositiveProductOrZeroSigmaRaises ==
    (ApproxQTopDone /\ (ArgsABC <= 0 \/ args.sigma = 0)) => Raised(ret)

\* Scale factors of the scaling relations.
Scales == 2..MaxScale

\* The call has positive A, B, C, T and sigma, and returned a positive
\* finite value.
PositiveTop ==
    /\ ApproxQTopDone
    /\ args.A > 0 /\ args.B > 0 /\ ArgsABC > 0 /\ args.T > 0 /\ args.sigma > 0
    /\ Returned(ret) /\ ret.val.k = "fin" /\ ret.val.s = 1

\* q1 = c * q2 for positive values q1, q2 and a factor c with c^2 = n / d:
\* compared through the squares, (1 / cd^2) * (rn / rd).
ScaledBy(q1, q2, n, d) ==
    q1.rn * q2.cd * q2.cd * q2.rd * d = n * q2.rn * q1.cd * q1.cd * q1.rd

TopAtT(k) ==
    approx_Q_top(args.A, args.B, k * args.T, args.sigma, args.C, args.np).val
TopAtSigma(k) ==
    approx_Q_top(args.A, args.B, args.T, k * args.sigma, args.C, args.np).val

\* C9 as stated: multiplying T by k multiplies Q by k^1.5, and multiplying
\* sigma by k divides Q by sqrt(k).
C9_ScalesWithRootOfSigma ==
    PositiveTop =>
        \A k \in Scales :
            /\ ScaledBy(TopAtT(k), ret.val, k * k * k, 1)
            /\ ScaledBy(TopAtSigma(k), ret.val, 1, k)

\* C9, amended: multiplying T by k multiplies Q by k^1.5, and multiplying
\* sigma by k divides Q by k (sigma is outside the square root).
C9_ScalesWithSigma ==
    PositiveTop =>
        \A k \in Scales :
            /\ TopAtT(k).k = "fin" /\ TopAtT(k).s = 1
            /\ TopAtSigma(k).k = "fin" /\ TopAtSigma(k).s = 1
            /\ ScaledBy(TopAtT(k), ret.val, k * k * k, 1)
            /\ ScaledBy(TopAtSigma(k), ret.val, 1, k * k)

\* approx_Q_top returned a value for A = 1, B = 2 (C = B), T = 2, sigma = 2.
C9_Witness ==
    /\ PositiveTop
    /\ args.A = 1 /\ args.B = 2 /\ ~args.C.given /\ args.T = 2 /\ args.sigma = 2
    /\ ret.val.cd = 2 /\ ret.val.rn = 8 /\ ret.val.rd = 4

PairReturned == pc = "done2" /\ Returned(ret) /\ Returned(ret2)

\* C10: per-record independence. Whenever calc_einstein returns a table
\* for each of two files, rows of the two tables that agree on their
\* Frequency and reduced TDM carry the same TDM and Einstein A, whatever
\* the other rows of the two files are; and every returned row carries the
\* six fields of its own line of the file.
C10_PerRecordIndependence ==
    PairReturned =>
        /\ \A i \in DOMAIN ret.val : \A j \in DOMAIN ret2.val :
             (/\ ret.val[i].Frequency = ret2.val[j].Frequency
              /\ ret.val[i].RTDM = ret2.val[j].RTDM)
             => /\ ret.val[i].TDM = ret2.val[j].TDM
                /\ ret.val[i].EinsteinA = ret2.val[j].EinsteinA
        /\ \A i \in DOMAIN ret.val :
             SameSixFields(ret.val[i], args.str_filepath[ret.val[i].index + 1])
        /\ \A j \in DOMAIN ret2.val :
             SameSixFields(ret2.val[j], args2.str_filepath[ret2.val[j].index + 1])

\* Two files of different length and different other rows share a line,
\* which comes back at different positions with the same TDM and Einstein A.
C10_Witness ==
    /\ PairReturned
    /\ Len(ret.val) = 1 /\ Len(ret2.val) = 2
    /\ ret.val[1].Frequency = Num(2, 0) /\ ret.val[1].RTDM = Num(2, 0)
    /\ ret2.val[1].Frequency = Num(1, 0) /\ IsNaN(ret2.val[1].RTDM)
    /\ ret2.val[2].Frequency = Num(2, 0) /\ ret2.val[2].RTDM = Num(2, 0)
    /\ ret2.val[2].index = 0
    /\ ret2.val[2].TDM = Num(4, 0) /\ ret2.val[2].EinsteinA = Num(32, 1)

RoundTripDone == pc = "reloaded"

NoTwoEqual(all) == \A m, n \in DOMAIN all : m # n => all[m] # all[n]

\* C12: add_entry with dup_check=True stores no duplicate: a catalog
\* without two equal entries stays so, and a call whose entry is already
\* stored leaves the entries as they are and warns; a call whose entry is
\* new appends it. With dup_check=False the entry is always inserted.
C12_AddEntryStoresNoDuplicate ==
    [][ LET new_entry == args'.assignment.dict
            stored == \E n \in DOMAIN db : db[n] = new_entry
        IN  /\ (args'.dup_check /\ NoTwoEqual(db)) => NoTwoEqual(db')
            /\ (args'.dup_check /\ stored) => (db' = db /\ ret'.val.warned)
            /\ (args'.dup_check /\ ~stored) =>
                 (db' = Append(db, new_entry) /\ ~ret'.val.warned)
            /\ ~args'.dup_check =>
                 (db' = Append(db, new_entry) /\ ~ret'.val.warned) ]_vars

\* A checked call found its entry among two stored ones, warned, and left
\* the two in place.
C12_Witness ==
    /\ op = "add_entry" /\ pc = "done"
    /\ args.dup_check /\ args.assignment.type = "Transition"
    /\ ret.val.warned
    /\ Len(db) = 2 /\ NoTwoEqual(db)
    /\ db[2] = args.assignment.dict

\* C13: run_spcat starts spcat only with an existing parameter file: a
\* missing .var file is first copied from the .par file; with neither file
\* the call raises FileNotFoundError and spcat is never started; and the
\* call returns only after the spcat process has ended.
C13_SpcatStartedWithParameterFile ==
    /\ [](op = "run_spcat" =>
            /\ proc.state # "none" =>
                 (isfile(fs, VarFile) /\ proc.argv = <<SpcatProgram, IntFile, VarFile>>)
            /\ (~isfile(fs, VarFile) /\ ~isfile(fs, ParFile)) =>
                 (proc.state = "none" /\ (pc = "done" => ret = Raise("FileNotFoundError")))
            /\ (pc = "done" /\ Returned(ret)) => proc.state = "exited"
            /\ Raised(ret) => proc.state = "none")
    /\ [][(op = "run_spcat" /\ pc = "call" /\ ~isfile(fs, VarFile) /\ isfile(fs, ParFile))
            => (/\ fs' = WriteFile(fs, VarFile, fs[ParFile])
                /\ proc'.state = "none"
                /\ pc' = "popen")]_vars

\* run_spcat returned after spcat ran on a .var file copied from the .par
\* file.
C13_Witness ==
    /\ op = "run_spcat" /\ pc = "done" /\ Returned(ret)
    /\ proc.state = "exited"
    /\ isfile(fs, ParFile) /\ isfile(fs, VarFile)
    /\ fs[VarFile] = fs[ParFile] /\ fs[ParFile] = <<"par B">>
    /\ ~isfile(fs, CatFile)

\* C14: run_calbak raises RuntimeError whenever calbak left a .lin file
\* without lines, raises FileNotFoundError without starting calbak when the
\* .cat file is missing, and returns normally only when the .lin file has
\* at least one line.
C14_EmptyLinRaisesRuntimeError ==
    (op = "run_calbak" /\ pc = "done") =>
        /\ ~isfile(fs, CatFile) =>
             (ret = Raise("FileNotFoundError") /\ proc.state = "none")
        /\ (proc.state = "exited" /\ isfile(fs, LinFile) /\ Len(fs[LinFile]) = 0)
             => ret = Raise("RuntimeError")
        /\ Returned(ret) => (isfile(fs, LinFile) /\ Len(fs[LinFile]) >= 1)

UniqueMd5(all) == \A i, j \in DOMAIN all : i # j => all[i].md5 # all[j].md5

\* C15: add_molecule_yaml keeps md5 hashes unique: when a stored record has
\* the md5 of the loaded molecule the call raises KeyError and leaves the
\* database as it was; otherwise exactly the loaded record is inserted; so
\* after any sequence of calls no two stored records share an md5.
C15_AddMoleculeKeepsMd5Unique ==
    /\ [](UniqueMd5(db))
    /\ [][ (op' = "add_molecule_yaml" /\ args'.yml_path \in DOMAIN fs) =>
            LET md5 == fs[args'.yml_path].metadata.md5
                stored == \E n \in DOMAIN db : db[n].md5 = md5
            IN  /\ stored => (ret' = Raise("KeyError") /\ db' = db)
                /\ ~stored =>
                     /\ Returned(ret')
                     /\ Len(db') = Len(db) + 1
                     /\ SubSeq(db', 1, Len(db)) = db
                     /\ db'[Len(db')].md5 = md5
                     /\ db'[Len(db')].name = fs[args'.yml_path].metadata.name ]_vars

\* A call on a file whose md5 is that of the second of two stored records,
\* under another molecule name, raised KeyError and stored nothing.
C15_Witness ==
    /\ op = "add_molecule_yaml" /\ pc = "done"
    /\ ret = Raise("KeyError")
    /\ Len(db) = 2
    /\ args.yml_path \in DOMAIN fs
    /\ fs[args.yml_path].metadata.md5 = db[2].md5
    /\ fs[args.yml_path].metadata.name # db[2].name

====
